---- MODULE Spec2Model ----
(***************************************************************************)
(* A model of the Ca2-Sandbox frontend session: the ROI registry kept by  *)
(* VideoDisplay.vue and the useROIOperations composable, the selected-ROI *)
(* list and the video / bleaching-analysis state kept by App.vue, and the *)
(* file list kept by FileSelector.vue.                                    *)
(*                                                                         *)
(* Every `await` of the source is a point where other handlers may run,   *)
(* so an asynchronous handler is one action up to its first await (its    *)
(* call is then "in flight"), one action for the backend's answer, and    *)
(* one action for the rest of the handler.                                *)
(*                                                                         *)
(* The source holds several revisions of the composable; they are         *)
(* modelled side by side over the same variables, the suffix of an        *)
(* action naming the revision (B: lines 122-256, C: lines 263-383 of      *)
(* useROIOperations.ts).                                                  *)
(***************************************************************************)
EXTENDS Integers, Sequences, FiniteSets, TLC

\* ------------------------------------------------------------- bounds
\* createROI calls made in one behaviour
MaxCreates == 2
\* backend requests that are in flight at the same time (ROI creations;
\* auto-ROI runs; uploads and analyses together)
MaxInFlight == 2
\* ROIs in one auto-ROI answer
MaxAutoROIs == 2
\* toggles of ROIs in one run of overlapping toggles
MaxToggles == 3
\* width and height of the video frame, in pixels
FrameW == 15
FrameH == 15

\* ------------------------------------------------- program constants
\* "Only create ROI if it has reasonable size": width < 10 || height < 10
MinROISize == 10
\* half the side of the rectangle the detector puts around a centre
ROIHalfSize == 5

\* ------------------------------------------------------------ helpers
Null == <<>>

Includes(s, x) == \E i \in DOMAIN s : s[i] = x

\* Array.prototype.indexOf / findIndex, 1-based; 0 stands for -1
IndexOf(s, x) ==
  IF Includes(s, x) THEN CHOOSE i \in DOMAIN s : s[i] = x /\ \A j \in 1..(i-1) : s[j] # x
  ELSE 0

\* Array.prototype.splice(index, 1)
RemoveAt(s, i) == [j \in 1..(Len(s)-1) |-> IF j < i THEN s[j] ELSE s[j+1]]

Count(s, x) == Cardinality({i \in DOMAIN s : s[i] = x})

Range(s) == {s[i] : i \in DOMAIN s}

Min2(a, b) == IF a < b THEN a ELSE b
Max2(a, b) == IF a > b THEN a ELSE b

\* --------------------------------------------------------------- state
VARIABLES
  \* FileSelector.vue
  fileList, uploadedFiles, selectedVideoPath,
  \* App.vue
  selectedFiles, selectedROIs, firstFrameData, analysisData, analysisId,
  \* VideoDisplay.vue / useROIOperations
  availableROIs, nextRoiId, isAutoROIRunning,
  isDrawing, drawingStart, currentDrawing,
  \* calls that are waiting for the backend
  createCalls, autoCalls, uploadCalls, analysisCalls,
  \* history: the ids handed out by nextRoiId.value++, in call order
  assignedIds,
  \* history: ROIs whose creation succeeded while an auto-ROI run overlapped it
  racedROIs,
  \* history: the call that completed last, [op, coords, outcome]
  lastDone,
  \* history: the result committed last, [op, stale]
  lastCommit,
  \* App.vue bleachingData: the bleach settings and the plotted traces
  adjustBleaching, smoothing, fitType, mainPlotData,
  \* calls that are waiting for the backend
  traceCalls, fitCalls,
  \* the fit preference the backend keeps for the analysis
  backendFit,
  \* history: the trace computations asked for since the settings last changed
  traceLog,
  \* the analysis core: the arguments and the result of the last computation
  coreIn, coreOut,
  \* VideoDisplay.vue: toggles of ROIs whose request is in flight, and the
  \* toggles asked for since the last moment none was in flight
  toggleCalls, toggleLog

fileVars == <<fileList, uploadedFiles, selectedVideoPath>>
videoVars == <<selectedFiles, firstFrameData, analysisData, analysisId,
               uploadCalls, analysisCalls, lastCommit>>
drawVars == <<isDrawing, drawingStart, currentDrawing>>
roiVars == <<availableROIs, selectedROIs, nextRoiId, isAutoROIRunning,
             createCalls, autoCalls, assignedIds, racedROIs, lastDone>>
plotVars == <<adjustBleaching, smoothing, fitType, mainPlotData, traceCalls,
              fitCalls, backendFit, traceLog>>
coreVars == <<coreIn, coreOut>>
toggleVars == <<toggleCalls, toggleLog>>
vars == <<fileVars, videoVars, drawVars, roiVars, plotVars, coreVars, toggleVars>>

\* ------------------------------------------------- the backend (spec)
\* InvalidROIError: a rectangle that is out of bounds, has no area or is not
\* normalized is rejected by the session before it is registered.
InFrame(c) == c[1] >= 0 /\ c[2] >= 0 /\ c[3] <= FrameW /\ c[4] <= FrameH
Normalized(c) == c[1] < c[3] /\ c[2] < c[4]
ValidROI(c) == Normalized(c) /\ InFrame(c)

\* AutoROIDetector step 3: a fixed-size rectangle around an accepted centre,
\* clamped to the frame.
RectAround(p) ==
  << Max2(0, p[1] - ROIHalfSize), Max2(0, p[2] - ROIHalfSize),
     Min2(FrameW, p[1] + ROIHalfSize), Min2(FrameH, p[2] + ROIHalfSize) >>

\* centres the detector may accept (pixels of the frame)
Centres == { <<0, 0>>, <<FrameW - 1, FrameH - 1>> }

\* The answers of /api/auto-roi: up to MaxAutoROIs detected rectangles around
\* distinct centres; the frontend reads roi.id and names the ROI
\* `Auto ROI ${roi.id + 1}`, so the ids are the 0-based positions.
AutoROIResponses ==
  UNION { { [i \in 1..n |-> [id |-> i - 1, coords |-> RectAround(cs[i])]] :
              cs \in { s \in [1..n -> Centres] :
                         \A i, j \in 1..n : i # j => s[i] # s[j] } } :
          n \in 0..MaxAutoROIs }

\* The answers of the ROI creation request: the trace of a valid rectangle,
\* or an error (an invalid rectangle, or the request failing).
CreateAnswers(c) == IF ValidROI(c) THEN {"ok", "error"} ELSE {"error"}

\* -------------------------------------------------------- option values
Some(x) == <<x>>
Val(o) == o[1]

\* ------------------------------------------------------------- videos
VideoA == [name |-> "a", ext |-> ".mp4"]
VideoB == [name |-> "b", ext |-> ".AVI"]
Notes == [name |-> "n", ext |-> ".txt"]
NoVideo == [name |-> "", ext |-> ""]

\* ------------------------------------------- App.vue: the selected ROIs
\* a handler of roi-created that leaves the list alone, as the older
\* revisions of App.vue do
handleROICreatedPlotOnly(sel, roi) == sel

\* handleROICreated: "Add the new ROI to the selected ROIs list since it's
\* created as selected: true".  The new value of selectedROIs.
handleROICreated(sel, roi) ==
  IF roi.selected /\ ~Includes(sel, roi.id) THEN Append(sel, roi.id) ELSE sel

RECURSIVE EmitROICreated(_, _)
\* emit('roi-created', newROI) for every ROI of rs, in order
EmitROICreated(sel, rs) ==
  IF rs = <<>> THEN sel
  ELSE EmitROICreated(handleROICreated(sel, Head(rs)), Tail(rs))

\* ------------------------------------- VideoDisplay.vue: drawing an ROI
\* the positions a mouse event on the canvas may report
PosX == {0, FrameW}
PosY == {0, FrameH}

\* coords = [min(x0,x1), min(y0,y1), max(x0,x1), max(y0,y1)]
NormalizeDrag(d) ==
  << Min2(d.x0, d.x1), Min2(d.y0, d.y1), Max2(d.x0, d.x1), Max2(d.y0, d.y1) >>

\* width < 10 || height < 10
TooSmall(c) == (c[3] - c[1] < MinROISize) \/ (c[4] - c[2] < MinROISize)

\* a response taken as a success whatever its status
responseAny(resp) == TRUE

\* if (response.ok) { ...push the new ROI... }
responseOk(resp) == resp = "ok"

\* an ROI record whose corners are stored in the wrong order
NewROICornersSwapped(id, coords) ==
  [id |-> id, name |-> <<"ROI", id>>,
   coords |-> <<coords[3], coords[4], coords[1], coords[2]>>, selected |-> TRUE]

\* newROI = { id: roiId, name: `ROI ${roiId}`, coords: coords, selected: true }
NewROI(id, coords) ==
  [id |-> id, name |-> <<"ROI", id>>, coords |-> coords, selected |-> TRUE]

NewAutoROI(r) ==
  [id |-> r.id, name |-> <<"Auto ROI", r.id + 1>>, coords |-> r.coords,
   selected |-> TRUE]

\* createROI up to its first await: the id is taken, the request is sent
createROICall(coords) ==
  /\ Len(assignedIds) < MaxCreates
  /\ Len(createCalls) < MaxInFlight
  /\ nextRoiId' = nextRoiId + 1
  /\ assignedIds' = Append(assignedIds, nextRoiId)
  /\ createCalls' = Append(createCalls,
       [id |-> nextRoiId, coords |-> coords, ov |-> autoCalls # <<>>])

handleMouseDown(x, y) ==
  /\ firstFrameData # Null
  /\ isDrawing' = TRUE
  /\ drawingStart' = Some([x |-> x, y |-> y])
  /\ currentDrawing' = Some([x0 |-> x, y0 |-> y, x1 |-> x, y1 |-> y])
  /\ UNCHANGED <<fileVars, videoVars, roiVars>>
  /\ UNCHANGED <<plotVars, coreVars, toggleVars>>

handleMouseMove(x, y) ==
  /\ isDrawing /\ drawingStart # Null /\ currentDrawing # Null
  /\ currentDrawing' = Some([Val(currentDrawing) EXCEPT !.x1 = x, !.y1 = y])
  /\ UNCHANGED <<isDrawing, drawingStart, fileVars, videoVars, roiVars>>
  /\ UNCHANGED <<plotVars, coreVars, toggleVars>>

handleMouseUp ==
  /\ isDrawing /\ drawingStart # Null /\ currentDrawing # Null
  /\ isDrawing' = FALSE
  /\ LET coords == NormalizeDrag(Val(currentDrawing)) IN
       IF TooSmall(coords)
       THEN /\ drawingStart' = Null
            /\ currentDrawing' = Null
            /\ UNCHANGED roiVars
       ELSE /\ createROICall(coords)
            /\ UNCHANGED <<drawingStart, currentDrawing, availableROIs,
                           selectedROIs, isAutoROIRunning, autoCalls,
                           racedROIs, lastDone>>
  /\ UNCHANGED <<fileVars, videoVars>>
  /\ UNCHANGED <<plotVars, coreVars, toggleVars>>

\* a mouse button released outside the canvas
handleGlobalMouseUp ==
  /\ isDrawing
  /\ isDrawing' = FALSE
  /\ drawingStart' = Null
  /\ currentDrawing' = Null
  /\ UNCHANGED <<fileVars, videoVars, roiVars>>
  /\ UNCHANGED <<plotVars, coreVars, toggleVars>>

\* the backend answers call i with resp; the rest of createROI runs, then
\* the rest of handleMouseUp that awaited it
createROIDone(i, resp) ==
  /\ i \in DOMAIN createCalls
  /\ resp \in CreateAnswers(createCalls[i].coords)
  /\ LET c == createCalls[i]
         newROI == NewROI(c.id, c.coords)
     IN /\ IF responseOk(resp)
           THEN /\ availableROIs' = Append(availableROIs, newROI)
                /\ selectedROIs' = handleROICreated(selectedROIs, newROI)
                /\ racedROIs' = IF c.ov THEN racedROIs \cup {newROI}
                                ELSE racedROIs
           ELSE UNCHANGED <<availableROIs, selectedROIs, racedROIs>>
        /\ lastDone' = Some([op |-> "createROI", coords |-> c.coords,
                             outcome |-> resp])
  /\ createCalls' = RemoveAt(createCalls, i)
  /\ drawingStart' = Null
  /\ currentDrawing' = Null
  /\ UNCHANGED <<fileVars, videoVars, isDrawing, nextRoiId, isAutoROIRunning,
                 autoCalls, assignedIds>>
  /\ UNCHANGED <<plotVars, coreVars, toggleVars>>

\* ------------------------------------ VideoDisplay.vue: auto ROI detection
\* handleAutoROI up to its first await; the button is disabled while
\* !props.firstFrameData || isAutoROIRunning
handleAutoROI ==
  /\ firstFrameData # Null
  /\ ~isAutoROIRunning
  /\ selectedFiles # <<>>
  /\ Len(autoCalls) < MaxInFlight
  /\ isAutoROIRunning' = TRUE
  /\ autoCalls' = Append(autoCalls,
       [before |-> availableROIs])
  /\ createCalls' = [i \in DOMAIN createCalls |->
                       [createCalls[i] EXCEPT !.ov = TRUE]]
  /\ racedROIs' = {}
  /\ UNCHANGED <<fileVars, videoVars, drawVars, availableROIs, selectedROIs,
                 nextRoiId, assignedIds, lastDone>>
  /\ UNCHANGED <<plotVars, coreVars, toggleVars>>

\* the rest of handleAutoROI: "Clear existing ROIs and add the new ones"
\* (resp = "ok" with the detected rois, or "error")
handleAutoROIDone(i, resp, rois) ==
  /\ i \in DOMAIN autoCalls
  /\ resp \in {"ok", "error"}
  /\ rois \in AutoROIResponses
  /\ resp = "error" => rois = <<>>
  /\ LET a == autoCalls[i]
         newROIs == [k \in DOMAIN rois |-> NewAutoROI(rois[k])]
     IN /\ IF resp = "ok"
           THEN /\ availableROIs' = newROIs
                /\ selectedROIs' = EmitROICreated(selectedROIs, newROIs)
           ELSE UNCHANGED <<availableROIs, selectedROIs>>
        /\ lastDone' = Some([op |-> "autoROI", coords |-> <<>>,
                             outcome |-> resp])
  /\ isAutoROIRunning' = FALSE
  /\ autoCalls' = RemoveAt(autoCalls, i)
  /\ UNCHANGED <<fileVars, videoVars, drawVars, nextRoiId, createCalls,
                 assignedIds, racedROIs>>
  /\ UNCHANGED <<plotVars, coreVars, toggleVars>>

\* ----------------------------------------------- parts that are at rest
\* App.vue bleachingData as constructed; the backend keeps the default fit
PlotIdle ==
  /\ adjustBleaching = TRUE
  /\ smoothing = 0
  /\ fitType = "inverse"
  /\ mainPlotData = Null
  /\ traceCalls = <<>>
  /\ fitCalls = <<>>
  /\ backendFit = "inverse"
  /\ traceLog = [seen |-> {}, again |-> FALSE]

\* no computation of the analysis core has been asked for
CoreIdle ==
  /\ coreIn = Null
  /\ coreOut = Null

\* no ROI is being toggled
ToggleIdle ==
  /\ toggleCalls = <<>>
  /\ toggleLog = [base |-> {}, ids |-> <<>>]

\* --------------------------------------------- the session on one video
\* The ROI session of VideoDisplay.vue and App.vue once a video is loaded:
\* the state reached from construction by choosing the file, selecting it
\* and receiving its first frame.
Init ==
  /\ fileList = <<VideoA>>
  /\ uploadedFiles = <<VideoA>>
  /\ selectedVideoPath = Some(VideoA)
  /\ selectedFiles = <<VideoA>>
  /\ firstFrameData = Some([video |-> VideoA, debug |-> FALSE])
  /\ analysisData = Null
  /\ analysisId = Null
  /\ uploadCalls = <<>>
  /\ analysisCalls = <<>>
  /\ lastCommit = Null
  /\ selectedROIs = <<>>
  /\ availableROIs = <<>>
  /\ nextRoiId = 1
  /\ isAutoROIRunning = FALSE
  /\ isDrawing = FALSE
  /\ drawingStart = Null
  /\ currentDrawing = Null
  /\ createCalls = <<>>
  /\ autoCalls = <<>>
  /\ assignedIds = <<>>
  /\ racedROIs = {}
  /\ lastDone = Null
  /\ PlotIdle
  /\ ToggleIdle
  /\ CoreIdle

Next ==
  \/ \E x \in PosX, y \in PosY : handleMouseDown(x, y)
  \/ \E x \in PosX, y \in PosY : handleMouseMove(x, y)
  \/ handleMouseUp
  \/ handleGlobalMouseUp
  \/ \E i \in 1..MaxInFlight, resp \in {"ok", "error"} : createROIDone(i, resp)
  \/ handleAutoROI
  \/ \E i \in 1..MaxInFlight, rois \in AutoROIResponses :
       handleAutoROIDone(i, "ok", rois)
  \/ \E i \in 1..MaxInFlight : handleAutoROIDone(i, "error", <<>>)

Spec == Init /\ [][Next]_vars

\* ------------------------------ useROIOperations, revision B (122-256)
\* the rectangles a caller may pass to createROI: the whole frame, and a
\* frame-sized rectangle shifted past the right and bottom edges
CallerCoords == { <<0, 0, FrameW, FrameH>>, <<1, 1, FrameW + 1, FrameH + 1>> }

\* the ids a caller may pass to selectROI / unselectROI
CallerIds == 0..MaxCreates

\* a request function that returns the body of an error response
apiCreateROINeverThrows(resp) == FALSE

\* useBackendApi createROI: if (!response.ok) throw new Error(...)
apiCreateROIThrows(resp) == resp # "ok"

\* createROI up to its await of apiCreateROI
createROI_B(coords) ==
  /\ Len(assignedIds) < MaxCreates
  /\ Len(createCalls) < MaxInFlight
  /\ nextRoiId' = nextRoiId + 1
  /\ assignedIds' = Append(assignedIds, nextRoiId)
  /\ createCalls' = Append(createCalls,
       [id |-> nextRoiId, coords |-> coords, ov |-> FALSE])
  /\ UNCHANGED <<fileVars, videoVars, drawVars, availableROIs, selectedROIs,
                 isAutoROIRunning, autoCalls, racedROIs, lastDone>>
  /\ UNCHANGED <<plotVars, coreVars, toggleVars>>

\* apiCreateROI answers call i (it throws unless the response is ok); the
\* rest of createROI
createROIDone_B(i, resp) ==
  /\ i \in DOMAIN createCalls
  /\ resp \in CreateAnswers(createCalls[i].coords)
  /\ LET c == createCalls[i] IN
       /\ availableROIs' = IF ~apiCreateROIThrows(resp)
                           THEN Append(availableROIs, NewROI(c.id, c.coords))
                           ELSE availableROIs
       /\ lastDone' = Some([op |-> "createROI", coords |-> c.coords,
                            outcome |-> resp])
  /\ createCalls' = RemoveAt(createCalls, i)
  /\ UNCHANGED <<fileVars, videoVars, drawVars, selectedROIs, nextRoiId,
                 isAutoROIRunning, autoCalls, assignedIds, racedROIs>>
  /\ UNCHANGED <<plotVars, coreVars, toggleVars>>

\* selectROI / unselectROI: availableROIs[roiIndex].selected = flag
SetSelected(rois, roiId, flag) ==
  LET roiIndex == CHOOSE k \in DOMAIN rois :
                    rois[k].id = roiId /\ \A j \in 1..(k-1) : rois[j].id # roiId
  IN [rois EXCEPT ![roiIndex].selected = flag]

selectROI_B(roiId) ==
  /\ \E k \in DOMAIN availableROIs : availableROIs[k].id = roiId
  /\ availableROIs' = SetSelected(availableROIs, roiId, TRUE)
  /\ UNCHANGED <<fileVars, videoVars, drawVars, selectedROIs, nextRoiId,
                 isAutoROIRunning, createCalls, autoCalls, assignedIds,
                 racedROIs, lastDone>>
  /\ UNCHANGED <<plotVars, coreVars, toggleVars>>

unselectROI_B(roiId) ==
  /\ \E k \in DOMAIN availableROIs : availableROIs[k].id = roiId
  /\ availableROIs' = SetSelected(availableROIs, roiId, FALSE)
  /\ UNCHANGED <<fileVars, videoVars, drawVars, selectedROIs, nextRoiId,
                 isAutoROIRunning, createCalls, autoCalls, assignedIds,
                 racedROIs, lastDone>>
  /\ UNCHANGED <<plotVars, coreVars, toggleVars>>

\* runAutoROI up to its await of apiRunAutoROI; without a video path it
\* returns at once
runAutoROI_B(videoPath) ==
  /\ videoPath # NoVideo
  /\ Len(autoCalls) < MaxInFlight
  /\ isAutoROIRunning' = TRUE
  /\ autoCalls' = Append(autoCalls, [before |-> <<>>])
  /\ UNCHANGED <<fileVars, videoVars, drawVars, availableROIs, selectedROIs,
                 nextRoiId, createCalls, assignedIds, racedROIs, lastDone>>
  /\ UNCHANGED <<plotVars, coreVars, toggleVars>>

\* apiRunAutoROI answers call i; the rest of runAutoROI: "Clear existing ROIs
\* and add the new ones"
runAutoROIDone_B(i, resp, rois) ==
  /\ i \in DOMAIN autoCalls
  /\ resp \in {"ok", "error"}
  /\ rois \in AutoROIResponses
  /\ resp = "error" => rois = <<>>
  /\ availableROIs' = IF resp = "ok"
                      THEN [k \in DOMAIN rois |-> NewAutoROI(rois[k])]
                      ELSE availableROIs
  /\ lastDone' = Some([op |-> "autoROI", coords |-> <<>>, outcome |-> resp])
  /\ isAutoROIRunning' = FALSE
  /\ autoCalls' = RemoveAt(autoCalls, i)
  /\ UNCHANGED <<fileVars, videoVars, drawVars, selectedROIs, nextRoiId,
                 createCalls, assignedIds, racedROIs>>
  /\ UNCHANGED <<plotVars, coreVars, toggleVars>>

clearROIs_B ==
  /\ availableROIs' = <<>>
  /\ nextRoiId' = 1
  /\ UNCHANGED <<fileVars, videoVars, drawVars, selectedROIs,
                 isAutoROIRunning, createCalls, autoCalls, assignedIds,
                 racedROIs, lastDone>>
  /\ UNCHANGED <<plotVars, coreVars, toggleVars>>

NextOps2 ==
  \/ \E c \in CallerCoords : createROI_B(c)
  \/ \E i \in 1..MaxInFlight, resp \in {"ok", "error"} : createROIDone_B(i, resp)
  \/ \E id \in CallerIds : selectROI_B(id)
  \/ \E id \in CallerIds : unselectROI_B(id)
  \/ \E v \in {NoVideo, VideoA} : runAutoROI_B(v)
  \/ \E i \in 1..MaxInFlight, rois \in AutoROIResponses :
       runAutoROIDone_B(i, "ok", rois)
  \/ \E i \in 1..MaxInFlight : runAutoROIDone_B(i, "error", <<>>)
  \/ clearROIs_B

SpecOps2 == Init /\ [][NextOps2]_vars

\* ------------------------------ useROIOperations, revision C (263-383)
\* the ROI record of this revision has no `selected` field: the selection
\* is the list selectedROIs
NewROI_C(id, coords) == [id |-> id, name |-> <<"ROI", id>>, coords |-> coords]

\* createROI up to its await of getROITraces
createROI_C(coords) ==
  /\ Len(assignedIds) < MaxCreates
  /\ Len(createCalls) < MaxInFlight
  /\ nextRoiId' = nextRoiId + 1
  /\ assignedIds' = Append(assignedIds, nextRoiId)
  /\ createCalls' = Append(createCalls,
       [id |-> nextRoiId, coords |-> coords, ov |-> FALSE])
  /\ UNCHANGED <<fileVars, videoVars, drawVars, availableROIs, selectedROIs,
                 isAutoROIRunning, autoCalls, racedROIs, lastDone>>
  /\ UNCHANGED <<plotVars, coreVars, toggleVars>>

\* getROITraces answers call i (it throws unless the response is ok); the
\* rest of createROI
createROIDone_C(i, resp) ==
  /\ i \in DOMAIN createCalls
  /\ resp \in CreateAnswers(createCalls[i].coords)
  /\ LET c == createCalls[i] IN
       /\ IF resp = "ok"
          THEN /\ availableROIs' = Append(availableROIs, NewROI_C(c.id, c.coords))
               /\ selectedROIs' = IF ~Includes(selectedROIs, c.id)
                                  THEN Append(selectedROIs, c.id)
                                  ELSE selectedROIs
          ELSE UNCHANGED <<availableROIs, selectedROIs>>
       /\ lastDone' = Some([op |-> "createROI", coords |-> c.coords,
                            outcome |-> resp])
  /\ createCalls' = RemoveAt(createCalls, i)
  /\ UNCHANGED <<fileVars, videoVars, drawVars, nextRoiId, isAutoROIRunning,
                 autoCalls, assignedIds, racedROIs>>
  /\ UNCHANGED <<plotVars, coreVars, toggleVars>>

\* a lookup that finds every id
findsAny(rois, roiId) == TRUE

\* availableROIs.value.find(r => r.id === roiId) is defined
finds(rois, roiId) == \E k \in DOMAIN rois : rois[k].id = roiId

\* selectROI: false for an id that is not registered; otherwise the id is
\* pushed on selectedROIs unless it is there already
selectROI_C(roiId) ==
  /\ IF finds(availableROIs, roiId)
     THEN /\ selectedROIs' = IF ~Includes(selectedROIs, roiId)
                             THEN Append(selectedROIs, roiId)
                             ELSE selectedROIs
          /\ lastDone' = Some([op |-> "selectROI", coords |-> <<>>,
                               outcome |-> "true"])
     ELSE /\ UNCHANGED selectedROIs
          /\ lastDone' = Some([op |-> "selectROI", coords |-> <<>>,
                               outcome |-> "false"])
  /\ UNCHANGED <<fileVars, videoVars, drawVars, availableROIs, nextRoiId,
                 isAutoROIRunning, createCalls, autoCalls, assignedIds,
                 racedROIs>>
  /\ UNCHANGED <<plotVars, coreVars, toggleVars>>

\* unselectROI: false for an id that is not registered; otherwise the id is
\* spliced out of selectedROIs if it is there
unselectROI_C(roiId) ==
  /\ IF finds(availableROIs, roiId)
     THEN /\ selectedROIs' = IF IndexOf(selectedROIs, roiId) > 0
                             THEN RemoveAt(selectedROIs,
                                           IndexOf(selectedROIs, roiId))
                             ELSE selectedROIs
          /\ lastDone' = Some([op |-> "unselectROI", coords |-> <<>>,
                               outcome |-> "true"])
     ELSE /\ UNCHANGED selectedROIs
          /\ lastDone' = Some([op |-> "unselectROI", coords |-> <<>>,
                               outcome |-> "false"])
  /\ UNCHANGED <<fileVars, videoVars, drawVars, availableROIs, nextRoiId,
                 isAutoROIRunning, createCalls, autoCalls, assignedIds,
                 racedROIs>>
  /\ UNCHANGED <<plotVars, coreVars, toggleVars>>

\* runAutoROI up to its await of apiRunAutoROI
runAutoROI_C ==
  /\ Len(autoCalls) < MaxInFlight
  /\ isAutoROIRunning' = TRUE
  /\ autoCalls' = Append(autoCalls, [before |-> <<>>])
  /\ UNCHANGED <<fileVars, videoVars, drawVars, availableROIs, selectedROIs,
                 nextRoiId, createCalls, assignedIds, racedROIs, lastDone>>
  /\ UNCHANGED <<plotVars, coreVars, toggleVars>>

\* the lists of rectangles apiRunAutoROI may return
AutoResults == {<<>>, <<RectAround(<<0, 0>>)>>}

\* a runAutoROI without the finally block: a failure leaves the flag set
runAutoROIDoneNoFinally_C(i, resp) ==
  /\ i \in DOMAIN autoCalls
  /\ resp \in {"ok", "error"}
  /\ \E result \in AutoResults :
       lastDone' = Some([op |-> "autoROI",
                         coords |-> IF resp = "ok" THEN result ELSE <<>>,
                         outcome |-> resp])
  /\ isAutoROIRunning' = (resp = "error")
  /\ autoCalls' = RemoveAt(autoCalls, i)
  /\ UNCHANGED <<fileVars, videoVars, drawVars, availableROIs, selectedROIs,
                 nextRoiId, createCalls, assignedIds, racedROIs>>
  /\ UNCHANGED <<plotVars, coreVars, toggleVars>>

\* the rest of runAutoROI: the detected rectangles are returned to the
\* caller, or [] from the catch block; the registry is not touched; finally
\* the flag is reset.  lastDone.coords is the list returned.
runAutoROIDone_C(i, resp) ==
  /\ i \in DOMAIN autoCalls
  /\ resp \in {"ok", "error"}
  /\ \E result \in AutoResults :
       lastDone' = Some([op |-> "autoROI",
                         coords |-> IF resp = "ok" THEN result ELSE <<>>,
                         outcome |-> resp])
  /\ isAutoROIRunning' = FALSE
  /\ autoCalls' = RemoveAt(autoCalls, i)
  /\ UNCHANGED <<fileVars, videoVars, drawVars, availableROIs, selectedROIs,
                 nextRoiId, createCalls, assignedIds, racedROIs>>
  /\ UNCHANGED <<plotVars, coreVars, toggleVars>>

clearROIs_C ==
  /\ availableROIs' = <<>>
  /\ selectedROIs' = <<>>
  /\ nextRoiId' = 1
  /\ UNCHANGED <<fileVars, videoVars, drawVars, isAutoROIRunning, createCalls,
                 autoCalls, assignedIds, racedROIs, lastDone>>
  /\ UNCHANGED <<plotVars, coreVars, toggleVars>>

NextOps3 ==
  \/ \E c \in CallerCoords : createROI_C(c)
  \/ \E i \in 1..MaxInFlight, resp \in {"ok", "error"} : createROIDone_C(i, resp)
  \/ \E id \in CallerIds : selectROI_C(id)
  \/ \E id \in CallerIds : unselectROI_C(id)
  \/ runAutoROI_C
  \/ \E i \in 1..MaxInFlight, resp \in {"ok", "error"} : runAutoROIDone_C(i, resp)
  \/ clearROIs_C

SpecOps3 == Init /\ [][NextOps3]_vars

\* AutoROIConfig.vue: the Auto ROI button is disabled while isRunning, so a
\* click starts a run only when none is running
handleRunAutoROI ==
  /\ ~isAutoROIRunning
  /\ runAutoROI_C

AutoAnswered ==
  \E i \in 1..MaxInFlight, resp \in {"ok", "error"} : runAutoROIDone_C(i, resp)

NextAuto ==
  \/ \E c \in CallerCoords : createROI_C(c)
  \/ \E i \in 1..MaxInFlight, resp \in {"ok", "error"} : createROIDone_C(i, resp)
  \/ \E id \in CallerIds : selectROI_C(id)
  \/ \E id \in CallerIds : unselectROI_C(id)
  \/ handleRunAutoROI
  \/ AutoAnswered
  \/ clearROIs_C

\* the operations with runAutoROI started from the button; the request of
\* apiRunAutoROI resolves or rejects, so a run in flight is answered
SpecAuto == Init /\ [][NextAuto]_vars /\ WF_vars(AutoAnswered)

\* ------------------------------------ FileSelector.vue and App.vue: videos
\* the files the file dialog offers
Files == {VideoA, VideoB, Notes}

videoExtensions == {".avi", ".mp4", ".mov"}

\* String.prototype.toLowerCase on the extensions that occur
ToLowerCase(e) == IF e = ".AVI" THEN ".avi" ELSE e

isVideoFile(f) == ToLowerCase(f.ext) \in videoExtensions

\* const index = currentSelection.indexOf(filename); splice or push
Toggled(sel, f) ==
  IF IndexOf(sel, f) > 0 THEN RemoveAt(sel, IndexOf(sel, f)) ELSE Append(sel, f)

\* a load that has completed is newer than every call that began before it
\* and works on another video
MarkUploads(calls, i) ==
  [j \in DOMAIN calls |->
     IF j < i /\ calls[j].video # calls[i].video
     THEN [calls[j] EXCEPT !.newer = TRUE] ELSE calls[j]]

MarkAnalyses(calls, i, video) ==
  [j \in DOMAIN calls |->
     [calls[j] EXCEPT
        !.newer = @ \/ (i > calls[j].before /\ video # calls[j].video),
        !.before = IF i <= @ THEN @ - 1 ELSE @]]

\* the file dialog returns file f
handleFileSelect(f) ==
  /\ isVideoFile(f)
  /\ ~Includes(fileList, f)
  /\ fileList' = Append(fileList, f)
  /\ uploadedFiles' = Append(uploadedFiles, f)
  /\ UNCHANGED <<selectedVideoPath, videoVars, drawVars, roiVars>>
  /\ UNCHANGED <<plotVars, coreVars, toggleVars>>

\* handleFileToggle up to its await of uploadAndProcessVideo
handleFileToggle(filename) ==
  /\ Includes(fileList, filename)
  /\ LET currentSelection == Toggled(selectedFiles, filename) IN
       /\ selectedFiles' = currentSelection
       /\ IF Len(currentSelection) = 1 /\ isVideoFile(filename)
          THEN /\ selectedVideoPath' = Some(currentSelection[1])
               /\ IF Includes(uploadedFiles, filename)
                  THEN /\ Len(uploadCalls) + Len(analysisCalls) < MaxInFlight
                       /\ uploadCalls' = Append(uploadCalls,
                            [video |-> filename, newer |-> FALSE])
                  ELSE UNCHANGED uploadCalls
          ELSE /\ selectedVideoPath' = Null
               /\ UNCHANGED uploadCalls
  /\ UNCHANGED <<fileList, uploadedFiles, firstFrameData, analysisData,
                 analysisId, analysisCalls, lastCommit, drawVars, roiVars>>
  /\ UNCHANGED <<plotVars, coreVars, toggleVars>>

\* a completion of the upload that also starts the ROI session afresh, as
\* clearROIs would
handleFileToggleDoneClearing(i, resp) ==
  /\ i \in DOMAIN uploadCalls
  /\ resp \in {"ok", "error"}
  /\ firstFrameData' = Some([video |-> uploadCalls[i].video,
                             debug |-> resp = "error"])
  /\ lastCommit' = Some([op |-> "upload", stale |-> uploadCalls[i].newer])
  /\ uploadCalls' = RemoveAt(uploadCalls, i)
  /\ availableROIs' = <<>>
  /\ nextRoiId' = 1
  /\ UNCHANGED <<fileVars, selectedFiles, analysisData, analysisId,
                 analysisCalls, drawVars, selectedROIs, isAutoROIRunning,
                 createCalls, autoCalls, assignedIds, racedROIs, lastDone,
                 plotVars, coreVars, toggleVars>>

\* uploadAndProcessVideo returns the first frame of the file, or dummy frame
\* data made for the file when the upload failed; the rest of
\* handleFileToggle emits it and App.vue's handleFirstFrameReceived keeps it
handleFileToggleDone(i, resp) ==
  /\ i \in DOMAIN uploadCalls
  /\ resp \in {"ok", "error"}
  /\ firstFrameData' = Some([video |-> uploadCalls[i].video,
                             debug |-> resp = "error"])
  /\ lastCommit' = Some([op |-> "upload", stale |-> uploadCalls[i].newer])
  /\ uploadCalls' = RemoveAt(MarkUploads(uploadCalls, i), i)
  /\ analysisCalls' = MarkAnalyses(analysisCalls, i, uploadCalls[i].video)
  /\ UNCHANGED <<fileVars, selectedFiles, analysisData, analysisId, drawVars,
                 roiVars>>
  /\ UNCHANGED <<plotVars, coreVars, toggleVars>>

\* a removal that takes the file from the two lists and leaves the selection
handleRemoveFileKeepingSelection(filename) ==
  /\ Includes(fileList, filename)
  /\ fileList' = RemoveAt(fileList, IndexOf(fileList, filename))
  /\ uploadedFiles' = IF IndexOf(uploadedFiles, filename) > 0
                      THEN RemoveAt(uploadedFiles, IndexOf(uploadedFiles, filename))
                      ELSE uploadedFiles
  /\ UNCHANGED <<selectedFiles, selectedVideoPath, firstFrameData,
                 analysisData, analysisId, uploadCalls, analysisCalls,
                 lastCommit, drawVars, roiVars>>
  /\ UNCHANGED <<plotVars, coreVars, toggleVars>>

\* handleRemoveFile: the file leaves fileList, uploadedFiles and the selection
handleRemoveFile(filename) ==
  /\ Includes(fileList, filename)
  /\ fileList' = RemoveAt(fileList, IndexOf(fileList, filename))
  /\ uploadedFiles' = IF IndexOf(uploadedFiles, filename) > 0
                      THEN RemoveAt(uploadedFiles, IndexOf(uploadedFiles, filename))
                      ELSE uploadedFiles
  /\ IF IndexOf(selectedFiles, filename) > 0
     THEN LET currentSelection ==
                RemoveAt(selectedFiles, IndexOf(selectedFiles, filename))
          IN /\ selectedFiles' = currentSelection
             /\ IF Len(currentSelection) = 0
                THEN selectedVideoPath' = Null /\ firstFrameData' = Null
                ELSE UNCHANGED <<selectedVideoPath, firstFrameData>>
     ELSE UNCHANGED <<selectedFiles, selectedVideoPath, firstFrameData>>
  /\ UNCHANGED <<analysisData, analysisId, uploadCalls, analysisCalls,
                 lastCommit, drawVars, roiVars>>
  /\ UNCHANGED <<plotVars, coreVars, toggleVars>>

handleClearAll ==
  /\ fileList' = <<>>
  /\ uploadedFiles' = <<>>
  /\ selectedFiles' = <<>>
  /\ selectedVideoPath' = Null
  /\ firstFrameData' = Null
  /\ UNCHANGED <<analysisData, analysisId, uploadCalls, analysisCalls,
                 lastCommit, drawVars, roiVars>>
  /\ UNCHANGED <<plotVars, coreVars, toggleVars>>

\* handleRunAnalysis up to its await of runAnalysis; the button that asks
\* for it is disabled while !props.firstFrameData
handleRunAnalysis ==
  /\ firstFrameData # Null
  /\ selectedFiles # <<>>
  /\ Len(uploadCalls) + Len(analysisCalls) < MaxInFlight
  /\ analysisCalls' = Append(analysisCalls,
       [video |-> selectedFiles[1], before |-> Len(uploadCalls),
        newer |-> FALSE])
  /\ UNCHANGED <<fileVars, selectedFiles, firstFrameData, analysisData,
                 analysisId, uploadCalls, lastCommit, drawVars, roiVars>>
  /\ UNCHANGED <<plotVars, coreVars, toggleVars>>

\* answers of runAnalysis: both models fitted, one of them, none; or a throw
AnalysisAnswers == {"ok", "okExponential", "okInverse", "okNone", "error"}

\* the models that have a slot in fit_params of the answer
fit_params(resp) ==
  CASE resp = "ok" -> {"exponential", "inverse"}
    [] resp = "okExponential" -> {"exponential"}
    [] resp = "okInverse" -> {"inverse"}
    [] OTHER -> {}

\* createDummyAnalysisData(): fit_params has exponential and inverse
createDummyAnalysisData ==
  [video |-> NoVideo, dummy |-> TRUE, fits |-> {"exponential", "inverse"}]

\* runAnalysis answers call i; the rest of handleRunAnalysis: the result, or
\* createDummyAnalysisData() in the catch block
handleRunAnalysisDone(i, resp) ==
  /\ i \in DOMAIN analysisCalls
  /\ resp \in AnalysisAnswers
  /\ LET a == analysisCalls[i] IN
       /\ analysisData' = IF resp # "error"
                          THEN Some([video |-> a.video, dummy |-> FALSE,
                                     fits |-> fit_params(resp)])
                          ELSE Some(createDummyAnalysisData)
       /\ analysisId' = IF resp # "error" THEN Some(a.video.name)
                        ELSE Some("dummy_analysis")
       /\ lastCommit' = Some([op |-> "analysis", stale |-> a.newer])
  /\ analysisCalls' = RemoveAt(analysisCalls, i)
  /\ UNCHANGED <<fileVars, selectedFiles, firstFrameData, uploadCalls,
                 drawVars, roiVars>>
  /\ UNCHANGED <<plotVars, coreVars, toggleVars>>

\* the state after construction
InitVideo ==
  /\ fileList = <<>>
  /\ uploadedFiles = <<>>
  /\ selectedVideoPath = Null
  /\ selectedFiles = <<>>
  /\ firstFrameData = Null
  /\ analysisData = Null
  /\ analysisId = Null
  /\ uploadCalls = <<>>
  /\ analysisCalls = <<>>
  /\ lastCommit = Null
  /\ selectedROIs = <<>>
  /\ availableROIs = <<>>
  /\ nextRoiId = 1
  /\ isAutoROIRunning = FALSE
  /\ isDrawing = FALSE
  /\ drawingStart = Null
  /\ currentDrawing = Null
  /\ createCalls = <<>>
  /\ autoCalls = <<>>
  /\ assignedIds = <<>>
  /\ racedROIs = {}
  /\ lastDone = Null
  /\ PlotIdle
  /\ ToggleIdle
  /\ CoreIdle

NextVideo ==
  \/ \E f \in Files : handleFileSelect(f)
  \/ \E f \in Files : handleFileToggle(f)
  \/ \E i \in 1..MaxInFlight, resp \in {"ok", "error"} : handleFileToggleDone(i, resp)
  \/ \E f \in Files : handleRemoveFile(f)
  \/ handleClearAll
  \/ handleRunAnalysis
  \/ \E i \in 1..MaxInFlight, resp \in {"ok", "error"} : handleRunAnalysisDone(i, resp)

SpecVideo == InitVideo /\ [][NextVideo]_vars

\* BleachingCorrection.vue, watch(analysisData): the raw data, then a fitted
\* curve for each model that has a slot in fit_params
bleachingChartData ==
  IF analysisData = Null THEN <<>>
  ELSE <<"Raw Data">>
       \o (IF "exponential" \in Val(analysisData).fits
           THEN <<"Exponential Fit">> ELSE <<>>)
       \o (IF "inverse" \in Val(analysisData).fits
           THEN <<"Inverse Fit">> ELSE <<>>)

\* choosing videos and running the analysis, with every answer of runAnalysis
NextFit ==
  \/ \E f \in Files : handleFileSelect(f)
  \/ \E f \in Files : handleFileToggle(f)
  \/ \E i \in 1..MaxInFlight, resp \in {"ok", "error"} :
       handleFileToggleDone(i, resp)
  \/ handleRunAnalysis
  \/ \E i \in 1..MaxInFlight, resp \in AnalysisAnswers :
       handleRunAnalysisDone(i, resp)

SpecFit == InitVideo /\ [][NextFit]_vars

\* ------------------------------- switching videos in a session with ROIs
\* registries a session on the first video can have built: one drawn ROI,
\* or a detected ROI followed by a drawn one
SessionROIs ==
  { <<NewROI(1, <<0, 0, FrameW, FrameH>>)>>,
    <<NewAutoROI([id |-> 0, coords |-> RectAround(<<0, 0>>)]),
      NewROI(1, <<0, 0, FrameW, FrameH>>)>> }

\* two videos in the list, the first one selected and shown, ROIs registered
InitSwitch ==
  /\ fileList = <<VideoA, VideoB>>
  /\ uploadedFiles = <<VideoA, VideoB>>
  /\ selectedVideoPath = Some(VideoA)
  /\ selectedFiles = <<VideoA>>
  /\ firstFrameData = Some([video |-> VideoA, debug |-> FALSE])
  /\ analysisData = Null
  /\ analysisId = Null
  /\ uploadCalls = <<>>
  /\ analysisCalls = <<>>
  /\ lastCommit = Null
  /\ availableROIs \in SessionROIs
  /\ selectedROIs = [i \in DOMAIN availableROIs |-> availableROIs[i].id]
  /\ nextRoiId = 2
  /\ isAutoROIRunning = FALSE
  /\ isDrawing = FALSE
  /\ drawingStart = Null
  /\ currentDrawing = Null
  /\ createCalls = <<>>
  /\ autoCalls = <<>>
  /\ assignedIds = <<1>>
  /\ racedROIs = {}
  /\ lastDone = Null
  /\ PlotIdle
  /\ ToggleIdle
  /\ CoreIdle

\* the handlers of FileSelector.vue and App.vue; the watcher of
\* VideoDisplay.vue on selectedFiles only renames the video that is shown
SpecSwitch == InitSwitch /\ [][NextVideo]_vars

\* ------------------------------------- VideoDisplay.vue: toggling an ROI
\* App.vue handleROIUpdated: the list follows the flag of the ROI
handleROIUpdated(sel, roi) ==
  LET index == IndexOf(sel, roi.id)
  IN IF roi.selected /\ index = 0 THEN Append(sel, roi.id)
     ELSE IF ~roi.selected /\ index # 0 THEN RemoveAt(sel, index)
     ELSE sel

\* App.vue handleROISelection: selectedROIs.value = rois
handleROISelection(sel, rois) == rois

\* handleROIToggle up to the fetch of handleROISelect / handleROIUnselect:
\* the new selection is computed from a copy of the current one
handleROIToggle(roiId) ==
  /\ finds(availableROIs, roiId)
  /\ Len(toggleCalls) < MaxInFlight
  /\ toggleCalls = <<>> \/ Len(toggleLog.ids) < MaxToggles
  /\ LET index == IndexOf(selectedROIs, roiId)
         currentSelection == IF index > 0 THEN RemoveAt(selectedROIs, index)
                             ELSE Append(selectedROIs, roiId)
     IN toggleCalls' = Append(toggleCalls,
          [roiId |-> roiId, currentSelection |-> currentSelection,
           select |-> index = 0])
  /\ toggleLog' = IF toggleCalls = <<>>
                  THEN [base |-> Range(selectedROIs), ids |-> <<roiId>>]
                  ELSE [toggleLog EXCEPT !.ids = Append(@, roiId)]
  /\ UNCHANGED <<fileVars, videoVars, drawVars, roiVars, plotVars, coreVars>>

\* the request of toggle i returns: on response.ok the flag of the ROI is
\* set and roi-updated is emitted; in every case rois-selected is emitted
\* with the selection computed when the toggle began
handleROIToggleDone(i, resp) ==
  /\ i \in DOMAIN toggleCalls
  /\ resp \in {"ok", "refused", "error"}
  /\ LET c == toggleCalls[i]
         done == resp = "ok" /\ finds(availableROIs, c.roiId)
         rois == IF done THEN SetSelected(availableROIs, c.roiId, c.select)
                 ELSE availableROIs
         roiIndex == CHOOSE k \in DOMAIN rois : rois[k].id = c.roiId
         updated == IF done THEN handleROIUpdated(selectedROIs, rois[roiIndex])
                    ELSE selectedROIs
     IN /\ availableROIs' = rois
        /\ selectedROIs' = handleROISelection(updated, c.currentSelection)
  /\ toggleCalls' = RemoveAt(toggleCalls, i)
  /\ UNCHANGED <<fileVars, videoVars, drawVars, nextRoiId, isAutoROIRunning,
                 createCalls, autoCalls, assignedIds, racedROIs, lastDone,
                 plotVars, coreVars, toggleLog>>

NextToggle ==
  \/ \E roiId \in CallerIds : handleROIToggle(roiId)
  \/ \E i \in 1..MaxInFlight, resp \in {"ok", "refused", "error"} :
       handleROIToggleDone(i, resp)

\* a session with ROIs registered and selected, in which ROIs are toggled
SpecToggle == InitSwitch /\ [][NextToggle]_vars

\* ------------------------- BleachingCorrection: settings and ROI traces
\* positions of the smoothing slider, in tenths (min 0, max 1, step 0.1)
Smoothings == {0, 5}
FitTypes == {"exponential", "inverse"}

\* the bleach settings the interface holds
Settings == [smoothing |-> smoothing, adjust |-> adjustBleaching,
             fit |-> fitType]

\* availableROIs.filter(roi => selectedROIs.includes(roi.id))
\*   .map(roi => ({id: roi.id, coords: roi.coords}))
selectedROIObjects ==
  LET sel == SelectSeq(availableROIs,
                       LAMBDA roi : Includes(selectedROIs, roi.id))
  IN [i \in DOMAIN sel |-> [id |-> sel[i].id, coords |-> sel[i].coords]]

\* what a trace is a function of: the ROIs and the settings in force
Fingerprint == [rois |-> selectedROIObjects, settings |-> Settings]

\* a change of settings ends the validity of what was computed before
Forget == [traceLog EXCEPT !.seen = {}]

PlotBudget == Len(traceCalls) + Len(fitCalls) < MaxInFlight

\* emit('bleaching-updated', {smoothing}); App.vue: Object.assign
handleSmoothingChange(value) ==
  /\ value \in Smoothings
  /\ smoothing' = value
  /\ traceLog' = Forget
  /\ UNCHANGED <<adjustBleaching, fitType, mainPlotData, traceCalls,
                 fitCalls, backendFit>>
  /\ UNCHANGED <<fileVars, videoVars, drawVars, roiVars, coreVars, toggleVars>>

\* emit('bleaching-updated', {adjustBleaching: target.checked})
handleAdjustBleachingChange(checked) ==
  /\ checked \in BOOLEAN
  /\ adjustBleaching' = checked
  /\ traceLog' = Forget
  /\ UNCHANGED <<smoothing, fitType, mainPlotData, traceCalls, fitCalls,
                 backendFit>>
  /\ UNCHANGED <<fileVars, videoVars, drawVars, roiVars, coreVars, toggleVars>>

\* if (props.bleachingData.analysisId) is false: nothing is sent
noAnalysis(id) == id = Null

\* handleFitTypeChange up to its await: the interface takes the type, and
\* the backend is asked only when an analysis id is known
handleFitTypeChange(type) ==
  /\ type \in FitTypes
  /\ fitType' = type
  /\ traceLog' = Forget
  /\ IF noAnalysis(analysisId)
     THEN UNCHANGED fitCalls
     ELSE /\ PlotBudget
          /\ fitCalls' = Append(fitCalls, type)
  /\ UNCHANGED <<adjustBleaching, smoothing, mainPlotData, traceCalls,
                 backendFit>>
  /\ UNCHANGED <<fileVars, videoVars, drawVars, roiVars, coreVars, toggleVars>>

\* the session persists the preference of a request that succeeds
persisted(resp, kind, stored) == IF resp = "ok" THEN kind ELSE stored

\* updateFitPreference returns or throws; the handler logs the error.
\* Requests complete in any order.
handleFitTypeChangeDone(i, resp) ==
  /\ i \in DOMAIN fitCalls
  /\ resp \in {"ok", "error"}
  /\ backendFit' = persisted(resp, fitCalls[i], backendFit)
  /\ fitCalls' = RemoveAt(fitCalls, i)
  /\ UNCHANGED <<adjustBleaching, smoothing, fitType, mainPlotData,
                 traceCalls, traceLog>>
  /\ UNCHANGED <<fileVars, videoVars, drawVars, roiVars, coreVars, toggleVars>>

\* handleGetROITraces up to its await: the request carries the selected
\* ROIs and the smoothing
handleGetROITraces ==
  /\ selectedFiles # <<>>
  /\ selectedROIs # <<>>
  /\ PlotBudget
  /\ traceCalls' = Append(traceCalls, Fingerprint)
  /\ traceLog' = [traceLog EXCEPT
                    !.again = @ \/ Fingerprint \in traceLog.seen]
  /\ UNCHANGED <<adjustBleaching, smoothing, fitType, mainPlotData,
                 fitCalls, backendFit>>
  /\ UNCHANGED <<fileVars, videoVars, drawVars, roiVars, coreVars, toggleVars>>

\* getROITraces returns traces (App.vue handleMainPlotUpdate stores the
\* plot), returns none, or throws (logged)
handleGetROITracesDone(i, resp) ==
  /\ i \in DOMAIN traceCalls
  /\ resp \in {"ok", "empty", "error"}
  /\ IF resp = "ok"
     THEN /\ mainPlotData' = Some(traceCalls[i])
          /\ traceLog' = [traceLog EXCEPT
                            !.seen = IF traceCalls[i].settings = Settings
                                     THEN @ \cup {traceCalls[i]} ELSE @]
     ELSE UNCHANGED <<mainPlotData, traceLog>>
  /\ traceCalls' = RemoveAt(traceCalls, i)
  /\ UNCHANGED <<adjustBleaching, smoothing, fitType, fitCalls, backendFit>>
  /\ UNCHANGED <<fileVars, videoVars, drawVars, roiVars, coreVars, toggleVars>>

\* a video is shown, ROIs are registered and selected, and the analysis
\* has run or not
InitPlot ==
  /\ fileList = <<VideoA>>
  /\ uploadedFiles = <<VideoA>>
  /\ selectedVideoPath = Some(VideoA)
  /\ selectedFiles = <<VideoA>>
  /\ firstFrameData = Some([video |-> VideoA, debug |-> FALSE])
  /\ analysisData = Null
  /\ analysisId \in {Null, Some(VideoA.name)}
  /\ uploadCalls = <<>>
  /\ analysisCalls = <<>>
  /\ lastCommit = Null
  /\ availableROIs \in SessionROIs
  /\ selectedROIs = [i \in DOMAIN availableROIs |-> availableROIs[i].id]
  /\ nextRoiId = 2
  /\ isAutoROIRunning = FALSE
  /\ isDrawing = FALSE
  /\ drawingStart = Null
  /\ currentDrawing = Null
  /\ createCalls = <<>>
  /\ autoCalls = <<>>
  /\ assignedIds = <<1>>
  /\ racedROIs = {}
  /\ lastDone = Null
  /\ PlotIdle
  /\ ToggleIdle
  /\ CoreIdle

NextPlot ==
  \/ \E value \in Smoothings : handleSmoothingChange(value)
  \/ \E checked \in BOOLEAN : handleAdjustBleachingChange(checked)
  \/ \E type \in FitTypes : handleFitTypeChange(type)
  \/ \E i \in 1..MaxInFlight, resp \in {"ok", "error"} :
       handleFitTypeChangeDone(i, resp)
  \/ handleGetROITraces
  \/ \E i \in 1..MaxInFlight, resp \in {"ok", "empty", "error"} :
       handleGetROITracesDone(i, resp)

SpecPlot == InitPlot /\ [][NextPlot]_vars

\* ----------------------------------------------- the analysis core
\* width of the fluctuation map and of the frames, in pixels
MapW == 3
\* length of a trace handed to smooth
MaxTrace == 3

MapXs == 0..(MapW - 1)
MapYs == {0, 1}
Pixels == MapXs \X MapYs
Scores == {0, 1, 2}
FluctuationMaps == [Pixels -> Scores]
\* thresholdPercentile, in percent
Percentiles == {0, 50, 100}
\* minDistanceFraction x frameWidth, in pixels
MinDistances == 0..MapW

\* ceil(a / b) for b > 0
CeilDiv(a, b) == (a + b - 1) \div b

\* the percentile over the whole map, by nearest rank: the smallest score
\* with at least ceil(p/100 x n) pixels at or below it
Cutoff(map, p) ==
  LET rank == Max2(1, CeilDiv(p * Cardinality(Pixels), 100))
      atOrBelow(sc) == Cardinality({q \in Pixels : map[q] <= sc})
  IN CHOOSE sc \in Scores :
       /\ atOrBelow(sc) >= rank
       /\ \A t \in Scores : atOrBelow(t) >= rank => sc <= t

\* a threshold that keeps the pixels at or below the cutoff
survivesBelow(score, cutoff) == score <= cutoff

\* pixels with score >= the percentile cutoff become candidates
survives(score, cutoff) == score >= cutoff

Candidates(map, p) == {q \in Pixels : survives(map[q], Cutoff(map, p))}

\* rank by descending score; equal scores in row-major order
RowMajor(q) == q[2] * MapW + q[1]
Before(map, q, r) ==
  \/ map[q] > map[r]
  \/ map[q] = map[r] /\ RowMajor(q) <= RowMajor(r)
Best(map, S) == CHOOSE q \in S : \A r \in S : Before(map, q, r)

\* squared Euclidean distance of two pixels
Dist2(q, r) == (q[1] - r[1]) * (q[1] - r[1]) + (q[2] - r[2]) * (q[2] - r[2])

\* a suppression that rejects nothing
neverTooClose(q, accepted, d) == FALSE

\* the distance to an already accepted centre is below the minimum
tooClose(q, accepted, d) ==
  \E i \in DOMAIN accepted : Dist2(q, accepted[i]) < d * d

\* greedy acceptance in rank order, up to the cap on the output size
RECURSIVE Greedy(_, _, _, _)
Greedy(map, S, accepted, d) ==
  IF S = {} \/ Len(accepted) = MaxAutoROIs THEN accepted
  ELSE LET q == Best(map, S)
       IN Greedy(map, S \ {q},
                 IF tooClose(q, accepted, d) THEN accepted
                 ELSE Append(accepted, q),
                 d)

\* AutoROIDetector: the accepted centres, in the order of acceptance
Detect(map, p, d) == Greedy(map, Candidates(map, p), <<>>, d)

\* --- ROITraceExtractor.rawTrace
PixelValues == {0, 1}
Ramp == [q \in Pixels |-> RowMajor(q)]
\* two frames: any frame of zeros and ones, then the same frame or a ramp
FrameBuffers ==
  {<<f, g>> : f \in [Pixels -> PixelValues], g \in {Ramp}} \cup
  {<<f, f>> : f \in [Pixels -> PixelValues]}
\* rectangles (x0, y0, x1, y1) of positive area inside the frame
Rectangles ==
  {c \in (0..MapW) \X (0..Cardinality(MapYs)) \X (0..MapW)
           \X (0..Cardinality(MapYs)) : c[1] < c[3] /\ c[2] < c[4]}

RECURSIVE GCD(_, _)
GCD(a, b) == IF b = 0 THEN a ELSE GCD(b, a % b)

\* the exact quotient a / b in lowest terms, b > 0
Fraction(a, b) == LET g == GCD(a, b) IN <<a \div g, b \div g>>

RECURSIVE SumOver(_, _)
SumOver(f, S) ==
  IF S = {} THEN 0
  ELSE LET q == CHOOSE q \in S : TRUE IN f[q] + SumOver(f, S \ {q})

\* a rectangle that takes the column x1 and the row y1 in as well
InsideClosed(c) ==
  {q \in Pixels : c[1] <= q[1] /\ q[1] <= c[3] /\ c[2] <= q[2] /\ q[2] <= c[4]}

\* inclusive of x0, y0; exclusive of x1, y1
Inside(c) ==
  {q \in Pixels : c[1] <= q[1] /\ q[1] < c[3] /\ c[2] <= q[2] /\ q[2] < c[4]}

\* per-frame mean of the pixel values inside the rectangle
rawTrace(frames, c) ==
  [t \in DOMAIN frames |->
     [mean |-> Fraction(SumOver(frames[t], Inside(c)), Cardinality(Inside(c))),
      pixels |-> Cardinality(Inside(c))]]

\* --- ROITraceExtractor.smooth
Samples == {0, 1, 3}
Traces == UNION {[1..n -> Samples] : n \in 1..MaxTrace}
\* alpha, in tenths
Alphas == {0, 5, 10}
AlphaOne == 10

\* a weight that never lets go of the previous output
carryAtLeastOne(alpha) == Max2(alpha, 1)

\* the weight of the previous output, in tenths; the sample gets the rest
carry(alpha) == alpha

\* exponential smoothing: y[1] = x[1],
\* y[i] = (1 - alpha) x[i] + alpha y[i-1], as exact fractions
RECURSIVE smoothUpTo(_, _, _)
smoothUpTo(trace, alpha, i) ==
  IF i = 1 THEN <<Fraction(trace[1], 1)>>
  ELSE LET prev == smoothUpTo(trace, alpha, i - 1)
           y == prev[i - 1]
           num == (AlphaOne - carry(alpha)) * trace[i] * y[2]
                    + carry(alpha) * y[1]
           den == AlphaOne * y[2]
       IN Append(prev, Fraction(num, den))

smooth(trace, alpha) == smoothUpTo(trace, alpha, Len(trace))

\* --- ROITraceExtractor.correct
\* values of the fitted decay curve at the time points
FitValues == {1, 2}
\* no fit, or the fitted curve over the time points of the trace
FitsFor(raw) == {Null} \cup {Some(f) : f \in [DOMAIN raw -> FitValues]}

FMul(a, b) == Fraction(a[1] * b[1], a[2] * b[2])
\* a / b for b # 0
FDiv(a, b) == Fraction(a[1] * b[2], a[2] * b[1])
FAdd(a, b) == Fraction(a[1] * b[2] + b[1] * a[2], a[2] * b[2])

RECURSIVE FSum(_, _)
FSum(fs, n) == IF n = 0 THEN <<0, 1>> ELSE FAdd(FSum(fs, n - 1), fs[n])

\* a correction that is skipped only when there is no fit
unchangedWithoutFit(fit, adjust) == fit = Null

\* adjust is false or no fit is available
unchanged(fit, adjust) == ~adjust \/ fit = Null

\* ratio-normalize against the fitted curve at each time point, then rescale
\* to preserve the original mean
correct(raw, fit, adjust) ==
  LET asIs == [i \in DOMAIN raw |-> Fraction(raw[i], 1)]
  IN IF unchanged(fit, adjust) THEN asIs
     ELSE LET ratio == [i \in DOMAIN raw |-> Fraction(raw[i], Val(fit)[i])]
              total == FSum(asIs, Len(raw))
              ratioTotal == FSum(ratio, Len(raw))
          IN IF ratioTotal[1] = 0 THEN ratio
             ELSE [i \in DOMAIN raw |->
                     FMul(ratio[i], FDiv(total, ratioTotal))]

\* --- one computation of the core on one input
CoreInputs ==
  {[op |-> "detect", map |-> m, percentile |-> p, minDistance |-> d] :
     m \in FluctuationMaps, p \in Percentiles, d \in MinDistances} \cup
  {[op |-> "rawTrace", frames |-> fb, coords |-> c] :
     fb \in FrameBuffers, c \in Rectangles} \cup
  {[op |-> "smooth", trace |-> tr, alpha |-> a] :
     tr \in Traces, a \in Alphas} \cup
  UNION {{[op |-> "correct", raw |-> tr, fit |-> f, adjust |-> b] :
            f \in FitsFor(tr), b \in BOOLEAN} : tr \in Traces}

CoreStep(op) ==
  /\ coreIn # Null
  /\ coreOut = Null
  /\ Val(coreIn).op = op
  /\ UNCHANGED <<coreIn, fileVars, videoVars, drawVars, roiVars, plotVars,
                 toggleVars>>

runDetect ==
  /\ CoreStep("detect")
  /\ coreOut' = Some(Detect(Val(coreIn).map, Val(coreIn).percentile,
                            Val(coreIn).minDistance))

runRawTrace ==
  /\ CoreStep("rawTrace")
  /\ coreOut' = Some(rawTrace(Val(coreIn).frames, Val(coreIn).coords))

runSmooth ==
  /\ CoreStep("smooth")
  /\ coreOut' = Some(smooth(Val(coreIn).trace, Val(coreIn).alpha))

runCorrect ==
  /\ CoreStep("correct")
  /\ coreOut' = Some(correct(Val(coreIn).raw, Val(coreIn).fit,
                             Val(coreIn).adjust))

InitCore ==
  /\ fileList = <<>>
  /\ uploadedFiles = <<>>
  /\ selectedVideoPath = Null
  /\ selectedFiles = <<>>
  /\ firstFrameData = Null
  /\ analysisData = Null
  /\ analysisId = Null
  /\ uploadCalls = <<>>
  /\ analysisCalls = <<>>
  /\ lastCommit = Null
  /\ selectedROIs = <<>>
  /\ availableROIs = <<>>
  /\ nextRoiId = 1
  /\ isAutoROIRunning = FALSE
  /\ isDrawing = FALSE
  /\ drawingStart = Null
  /\ currentDrawing = Null
  /\ createCalls = <<>>
  /\ autoCalls = <<>>
  /\ assignedIds = <<>>
  /\ racedROIs = {}
  /\ lastDone = Null
  /\ PlotIdle
  /\ ToggleIdle
  /\ coreIn \in {Some(in) : in \in CoreInputs}
  /\ coreOut = Null

NextCore ==
  \/ runDetect
  \/ runRawTrace
  \/ runSmooth
  \/ runCorrect

SpecCore == InitCore /\ [][NextCore]_vars

\* ------------------------------------------------ properties of Spec
IdsOf(rois) == [i \in DOMAIN rois |-> rois[i].id]
Distinct(s) == \A i, j \in DOMAIN s : i # j => s[i] # s[j]
Quiet == createCalls = <<>> /\ autoCalls = <<>>

\* C3: when a createROI and an auto-ROI run overlapped and both have
\* completed, every ROI whose creation succeeded is in the registry and the
\* ids of the registry are distinct.
C3_NoLostUpdate ==
  Quiet => /\ \A r \in racedROIs : Includes(availableROIs, r)
           /\ Distinct(IdsOf(availableROIs))

\* C6: a successful createROI leaves its ROI in the registry marked selected,
\* and the id of that ROI exactly once in the selected-ROI list.
C6_SelectedByDefault ==
  [][\A i \in 1..MaxInFlight :
       createROIDone(i, "ok") =>
         /\ Includes(availableROIs', NewROI(createCalls[i].id, createCalls[i].coords))
         /\ NewROI(createCalls[i].id, createCalls[i].coords).selected
         /\ Count(selectedROIs', createCalls[i].id) = 1]_vars

C6_Witness ==
  /\ lastDone = Some([op |-> "createROI", coords |-> <<0, 0, FrameW, FrameH>>,
                      outcome |-> "ok"])
  /\ \E k \in DOMAIN availableROIs :
       /\ availableROIs[k].name[1] = "ROI"
       /\ availableROIs[k].selected
       /\ Count(selectedROIs, availableROIs[k].id) = 1

\* C7: a successful auto-ROI run keeps every ROI that was in the registry
\* when it was called, and registers each detected ROI under the next unused
\* session ids, as createROI would.
C7_AutoThroughCreate ==
  [][\A i \in 1..MaxInFlight : \A rois \in AutoROIResponses :
       handleAutoROIDone(i, "ok", rois) =>
         /\ \A r \in Range(autoCalls[i].before) : Includes(availableROIs', r)
         /\ \A k \in DOMAIN rois :
              \E r \in Range(availableROIs') :
                r.coords = rois[k].coords /\ r.id = nextRoiId + k - 1
         /\ nextRoiId' = nextRoiId + Len(rois)]_vars

\* C8: every ROI of the registry, drawn or detected, has x0 < x1 and y0 < y1.
C8_Normalized ==
  \A i \in DOMAIN availableROIs : Normalized(availableROIs[i].coords)

C8_Witness ==
  /\ \E i \in DOMAIN availableROIs : availableROIs[i].name[1] = "ROI"
  /\ \E i \in DOMAIN availableROIs : availableROIs[i].name[1] = "Auto ROI"

\* C10: a createROI that fails, and a drawing that is rejected as too small,
\* leave the registry and the selected-ROI list as they were.
C10_FailureInsertsNothing ==
  [][/\ \A i \in 1..MaxInFlight :
          createROIDone(i, "error") =>
            availableROIs' = availableROIs /\ selectedROIs' = selectedROIs
     /\ (handleMouseUp /\ TooSmall(NormalizeDrag(Val(currentDrawing)))) =>
            availableROIs' = availableROIs /\ selectedROIs' = selectedROIs]_vars

C10_Witness ==
  /\ lastDone = Some([op |-> "createROI", coords |-> <<0, 0, FrameW, FrameH>>,
                      outcome |-> "error"])
  /\ availableROIs # <<>>

\* --------------------------------------------- properties of SpecOps2
\* C1: after any sequence of createROI, runAutoROI and clearROIs, failed
\* creations included, the ids of the registry are distinct and no id has
\* been handed out twice.
C1_IdsUnique == Distinct(IdsOf(availableROIs)) /\ Distinct(assignedIds)

\* C9: every ROI of the registry lies inside the frame; a rectangle that is
\* partly outside it is rejected and never inserted.
C9_InFrame == \A i \in DOMAIN availableROIs : InFrame(availableROIs[i].coords)

C9_Witness ==
  /\ lastDone = Some([op |-> "createROI",
                      coords |-> <<1, 1, FrameW + 1, FrameH + 1>>,
                      outcome |-> "error"])
  /\ \E i \in DOMAIN availableROIs : availableROIs[i].name[1] = "ROI"

\* --------------------------------------------- properties of SpecOps3
\* C2: the ids handed out by successive createROI calls increase strictly,
\* also across a removal: an id is greater than every id handed out before.
C2_IdsIncrease ==
  \A i, j \in DOMAIN assignedIds : i < j => assignedIds[i] < assignedIds[j]

\* --------------------------------------------- properties of SpecVideo
\* C4: the result of an operation that began under an earlier video is never
\* committed once a newer video has been loaded.
C4_NoStaleCommit == lastCommit # Null => ~Val(lastCommit).stale

\* C5: the bleaching analysis data that is held was computed from the video
\* that is selected.
C5_AnalysisOfSelected ==
  analysisData # Null =>
    selectedFiles # <<>> /\ Val(analysisData).video = selectedFiles[1]
\* C11: a load that fails commits nothing: the selected video, the first-frame
\* data and the analysis data are the same after the failed load as before.
C11_FailedLoadCommitsNothing ==
  [][\A i \in 1..MaxInFlight :
       handleFileToggleDone(i, "error") =>
         /\ selectedFiles' = selectedFiles
         /\ firstFrameData' = firstFrameData
         /\ analysisData' = analysisData]_vars

\* -------------------------------------------- properties of SpecSwitch
\* the ids and the rectangles of the registry
RegistryShape(rois) ==
  [i \in DOMAIN rois |-> <<rois[i].id, rois[i].coords>>]

\* C12: selecting another video and receiving its first frame leave the ids
\* and the rectangles of the registered ROIs as they were.
C12_LoadKeepsRegistry ==
  [][((\E f \in Files : handleFileToggle(f))
        \/ (\E i \in 1..MaxInFlight, resp \in {"ok", "error"} :
              handleFileToggleDone(i, resp)))
       => RegistryShape(availableROIs') = RegistryShape(availableROIs)]_vars

C12_Witness ==
  /\ selectedFiles = <<VideoB>>
  /\ firstFrameData = Some([video |-> VideoB, debug |-> FALSE])
  /\ Len(availableROIs) = 2

\* ---------------------------------------------- properties of SpecPlot
\* C13: the plot on the screen was computed with the settings the interface
\* holds: after a change of the adjust flag, the fit type or the smoothing,
\* a trace computed before the change is not plotted.
C13_PlotIsCurrent ==
  mainPlotData # Null => Val(mainPlotData).settings = Settings

\* C14: no request for traces is sent for ROIs and settings whose traces
\* were already received and which have not changed since.
C14_ComputedOnce == ~traceLog.again

\* C16: once every fit-preference request has completed, the preference the
\* backend stores is the fit type the interface holds.
C16_PreferencePersisted ==
  (analysisId # Null /\ fitCalls = <<>>) => backendFit = fitType

\* ---------------------------------- properties of SpecOps3: the lifecycle
Registered(id) == \E k \in DOMAIN availableROIs : availableROIs[k].id = id

\* the registry, the id counter and the selection of every other ROI stay
OthersKept(id) ==
  /\ availableROIs' = availableROIs
  /\ nextRoiId' = nextRoiId
  /\ SelectSeq(selectedROIs', LAMBDA r : r # id)
       = SelectSeq(selectedROIs, LAMBDA r : r # id)

\* C15: selectROI and unselectROI move a registered ROI to Selected and to
\* Unselected and return true, leaving the registry alone; on an id that is
\* not, or no longer, in the registry they return false and change nothing.
C15_Lifecycle ==
  [][\A id \in CallerIds :
       /\ selectROI_C(id) =>
            /\ OthersKept(id)
            /\ IF Registered(id)
               THEN Count(selectedROIs', id) = 1
                    /\ Val(lastDone').outcome = "true"
               ELSE selectedROIs' = selectedROIs
                    /\ Val(lastDone').outcome = "false"
       /\ unselectROI_C(id) =>
            /\ OthersKept(id)
            /\ IF Registered(id)
               THEN Count(selectedROIs', id) = 0
                    /\ Val(lastDone').outcome = "true"
               ELSE selectedROIs' = selectedROIs
                    /\ Val(lastDone').outcome = "false"]_vars

\* a select that was refused after the registry had been cleared
C15_Witness ==
  /\ assignedIds # <<>>
  /\ availableROIs = <<>>
  /\ lastDone = Some([op |-> "selectROI", coords |-> <<>>,
                      outcome |-> "false"])

\* ---------------------------------------------- properties of SpecCore
Did(op) == coreOut # Null /\ Val(coreIn).op = op

\* C17: every two distinct accepted centres are at Euclidean distance at
\* least minDistanceFraction x frameWidth.
C17_CentresApart ==
  Did("detect") =>
    \A i, j \in DOMAIN Val(coreOut) :
      i # j => Dist2(Val(coreOut)[i], Val(coreOut)[j])
                 >= Val(coreIn).minDistance * Val(coreIn).minDistance

\* a candidate between two accepted centres was rejected
C17_Witness ==
  /\ Did("detect")
  /\ Val(coreIn).minDistance = 2
  /\ Val(coreIn).map = [q \in Pixels |-> 2]
  /\ Val(coreOut) = <<<<0, 0>>, <<2, 0>>>>

\* C18: for the same map and the same minimum distance, a higher
\* thresholdPercentile never accepts more candidates.
C18_MonotoneInThreshold ==
  Did("detect") =>
    \A p \in Percentiles :
      p >= Val(coreIn).percentile =>
        Len(Detect(Val(coreIn).map, p, Val(coreIn).minDistance))
          <= Len(Val(coreOut))

\* a higher threshold that accepts strictly fewer
C18_Witness ==
  /\ Did("detect")
  /\ \E p \in Percentiles :
       /\ p > Val(coreIn).percentile
       /\ Len(Detect(Val(coreIn).map, p, Val(coreIn).minDistance))
            < Len(Val(coreOut))

\* the mean of every pixel of a frame
GlobalMean(frame) == Fraction(SumOver(frame, Pixels), Cardinality(Pixels))
FullFrame == <<0, 0, MapW, Cardinality(MapYs)>>

\* C19: each value of rawTrace is the mean over exactly (x1-x0)*(y1-y0)
\* pixels, and over the full-frame rectangle it is the global mean of the
\* frame.
C19_HalfOpenMean ==
  Did("rawTrace") =>
    LET c == Val(coreIn).coords
        frames == Val(coreIn).frames
    IN \A t \in DOMAIN Val(coreOut) :
         /\ Val(coreOut)[t].pixels = (c[3] - c[1]) * (c[4] - c[2])
         /\ c = FullFrame => Val(coreOut)[t].mean = GlobalMean(frames[t])

\* the full frame of a buffer whose second frame is the ramp
C19_Witness ==
  /\ Did("rawTrace")
  /\ Val(coreIn).coords = FullFrame
  /\ Val(coreIn).frames[2] = Ramp
  /\ Val(coreOut)[2].pixels = Cardinality(Pixels)

\* C20: smooth(trace, 0) is the trace itself, element for element.
C20_AlphaZeroIdentity ==
  (Did("smooth") /\ Val(coreIn).alpha = 0) =>
    /\ Len(Val(coreOut)) = Len(Val(coreIn).trace)
    /\ \A i \in DOMAIN Val(coreOut) :
         Val(coreOut)[i] = <<Val(coreIn).trace[i], 1>>

\* a trace that smoothing with alpha > 0 would change, smoothed with 0
C20_Witness ==
  /\ Did("smooth")
  /\ Val(coreIn).alpha = 0
  /\ Val(coreIn).trace = <<0, 3, 1>>
  /\ smooth(Val(coreIn).trace, 5) # Val(coreOut)

\* C21: correct returns the raw trace, element for element, when adjust is
\* false, whatever the fit, and when there is no fit, whatever adjust is.
C21_CorrectLeavesRaw ==
  (Did("correct") /\ (~Val(coreIn).adjust \/ Val(coreIn).fit = Null)) =>
    /\ Len(Val(coreOut)) = Len(Val(coreIn).raw)
    /\ \A i \in DOMAIN Val(coreOut) :
         Val(coreOut)[i] = <<Val(coreIn).raw[i], 1>>

\* adjustment switched off on a trace and a fit that adjustment would change
C21_Witness ==
  /\ Did("correct")
  /\ ~Val(coreIn).adjust
  /\ Val(coreIn).raw = <<1, 3>>
  /\ Val(coreIn).fit = Some(<<1, 2>>)
  /\ correct(Val(coreIn).raw, Val(coreIn).fit, TRUE) = <<<<8, 5>>, <<12, 5>>>>

\* ----------------------------------------------- properties of SpecFit
\* C22: the fitted curves on the chart are those of the models present in
\* the result, each on its own; a failed analysis reports no fit for either
\* model.
C22_FitsIndependent ==
  analysisData # Null =>
    /\ Includes(bleachingChartData, "Exponential Fit")
         <=> "exponential" \in Val(analysisData).fits
    /\ Includes(bleachingChartData, "Inverse Fit")
         <=> "inverse" \in Val(analysisData).fits
    /\ analysisId = Some("dummy_analysis") => Val(analysisData).fits = {}

\* ------------------------------------ properties of Spec: the selection
\* C23: every selected id is the id of an ROI that is in the registry.
C23_SelectedAreRegistered ==
  \A i \in DOMAIN selectedROIs :
    \E k \in DOMAIN availableROIs : availableROIs[k].id = selectedROIs[i]

\* --------------------------------------------- properties of SpecToggle
\* C24: when no toggle is in flight, the selected flag of every ROI agrees
\* with the membership of its id in the selected-ROI list.
C24_FlagAgreesWithList ==
  toggleCalls = <<>> =>
    \A k \in DOMAIN availableROIs :
      availableROIs[k].selected <=> Includes(selectedROIs, availableROIs[k].id)

\* the ids whose selection a run of toggles flips
Flipped(base, ids) ==
  (base \ Range(ids)) \cup (Range(ids) \ base)

\* C25: after the toggles of two different ROIs that overlapped have both
\* completed, the selection of each of the two has flipped and that of
\* every other ROI is as it was.
C25_BothTogglesTakeEffect ==
  (toggleCalls = <<>> /\ Len(toggleLog.ids) = 2
     /\ toggleLog.ids[1] # toggleLog.ids[2]) =>
    Range(selectedROIs) = Flipped(toggleLog.base, toggleLog.ids)

\* ------------------------------- properties of SpecVideo: the selection
\* C26: a toggle that leaves exactly one video selected uploads that video,
\* also when the toggle deselected one of two selected files.
C26_UploadsTheSelected ==
  [][\A f \in Files :
       (handleFileToggle(f) /\ Len(selectedFiles') = 1
          /\ isVideoFile(selectedFiles'[1])) =>
         /\ Len(uploadCalls') = Len(uploadCalls) + 1
         /\ uploadCalls'[Len(uploadCalls')].video = selectedFiles'[1]]_vars

\* C27: whenever no file is selected there is no first-frame data.
C27_NoSelectionNoFrame ==
  selectedFiles = <<>> => firstFrameData = Null

C29_DrawingHasRectangle ==
  isDrawing => (drawingStart # Null /\ currentDrawing # Null)

\* ------------------------------ properties of SpecVideo: the file list
NamesOf(files) == [i \in DOMAIN files |-> files[i].name]

\* C30: the file list has no duplicate names, the uploaded File objects have
\* exactly the names of the file list, and every selected file is in the
\* file list.
C30_FileListsConsistent ==
  /\ Distinct(NamesOf(fileList))
  /\ NamesOf(uploadedFiles) = NamesOf(fileList)
  /\ \A i \in DOMAIN selectedFiles : Includes(fileList, selectedFiles[i])

\* a file was removed while another stayed selected
C30_Witness ==
  /\ fileList = <<VideoB>>
  /\ uploadedFiles = <<VideoB>>
  /\ selectedFiles = <<VideoB>>
  /\ firstFrameData = Some([video |-> VideoA, debug |-> FALSE])
====
